---- MODULE Spec2Model ----
(***************************************************************************)
(* State-machine model of backup.py: the orchestrator (main), the task     *)
(* runner (perform_backup) and the incremental differ (sync_folders),      *)
(* running over a small filesystem.                                        *)
(*                                                                         *)
(* Conventions.                                                            *)
(*   - A Python str is a sequence of tokens, so that f-strings are         *)
(*     concatenations and "" is << >>.                                     *)
(*   - A path is a sequence of components, each component a str.           *)
(*   - A Python dict is a function whose DOMAIN is the set of keys that    *)
(*     are present; d.get(k, default) is Get(d, k, default).               *)
(*   - A directory tree is a function from relative paths to entries:      *)
(*     "none" (nothing there), "dir", or the content of a regular file.    *)
(***************************************************************************)
EXTENDS Integers, Sequences, FiniteSets, TLC

\* ------------------------------------------------------------------ bounds
MaxTasks == 2
MaxRuns == 2
MaxClock == 1
MaxFaults == 1

\* ------------------------------------------------------- strings and dicts
EmptyDict == << >>

HasKey(d, k) == k \in DOMAIN d

Get(d, k, default) == IF HasKey(d, k) THEN d[k] ELSE default

\* ------------------------------------------------------------------- paths
SrcDocs == << <<"data">>, <<"docs">> >>
SrcMedia == << <<"data">>, <<"media">> >>
SrcGone == << <<"data">>, <<"gone">> >>
SrcDocsSlash == << <<"data">>, <<"docs">>, << >> >>
SrcOldDocs == << <<"data">>, <<"old", "_", "docs">> >>

\* os.path.basename: the text after the last separator ("" after a trailing one)
Basename(path) == IF path = << >> THEN << >> ELSE path[Len(path)]

\* os.path.normpath, as far as these paths need it: empty components go
RECURSIVE Normpath(_)
Normpath(path) ==
    IF path = << >> THEN << >>
    ELSE (IF Head(path) = << >> THEN << >> ELSE <<Head(path)>>) \o Normpath(Tail(path))

\* ------------------------------------------------------------------- trees
RelA == <<"a">>
RelN == <<"n">>
RelSub == <<"sub">>
RelSubB == <<"sub", "b">>
RelEmpty == <<"e">>
RelPaths == {RelA, RelN, RelSub, RelSubB, RelEmpty}

\* the order in which a directory listing returns its entries
ListOrder == <<RelA, RelN, RelEmpty, RelSub, RelSubB>>

\* what a regular file holds; "trunc" is what an interrupted copy leaves
Contents == {"c1", "c2", "trunc"}

Parent(rel) == SubSeq(rel, 1, Len(rel) - 1)

EmptyTree == [r \in RelPaths |-> "none"]

IsFile(tree, rel) == tree[rel] \in Contents

FilesOf(tree) == {r \in RelPaths : IsFile(tree, r)}

DocsTree == [r \in RelPaths |->
                IF r \in {RelA, RelSubB} THEN "c1"
                ELSE IF r \in {RelSub, RelEmpty} THEN "dir" ELSE "none"]

MediaTree == [r \in RelPaths |-> IF r = RelA THEN "c2" ELSE "none"]

Prefixes(rel) == {SubSeq(rel, 1, k) : k \in 1..Len(rel)}

\* the entries of directory dir, in listing order
Children(tree, dir) ==
    SelectSeq(ListOrder, LAMBDA r : Parent(r) = dir /\ tree[r] # "none")

DirItem(rel) == [kind |-> "dir", rel |-> rel]

FileItem(rel) == [kind |-> "file", rel |-> rel]

RECURSIVE FileItems(_)
FileItems(rels) ==
    IF rels = << >> THEN << >> ELSE <<FileItem(Head(rels))>> \o FileItems(Tail(rels))

\* variant: only the top directory is listed (listdir for walk)
WalkTopOnly(tree, stack) ==
    IF stack = << >> THEN << >>
    ELSE <<DirItem(Head(stack))>>
            \o FileItems(SelectSeq(Children(tree, Head(stack)), LAMBDA r : tree[r] # "dir"))

\* os.walk(source), top-down: each directory, then its files, then its
\* subdirectories in turn.  stack holds the directories still to visit.
RECURSIVE Walk(_, _)
Walk(tree, stack) ==
    IF stack = << >> THEN << >>
    ELSE LET dir == Head(stack)
             files == SelectSeq(Children(tree, dir), LAMBDA r : tree[r] # "dir")
             dirs == SelectSeq(Children(tree, dir), LAMBDA r : tree[r] = "dir")
         IN <<DirItem(dir)>> \o FileItems(files) \o Walk(tree, dirs \o Tail(stack))

\* ------------------------------------------------- the destination root
\* dst maps each name under the destination root to what is there:
\* a directory with its tree, or a regular file (an archive) with the tree
\* it packs.
DirEntry(tree) == [kind |-> "dir", tree |-> tree]

ArchiveEntry(tree) == [kind |-> "file", tree |-> tree]

\* variant: only directories count as present (isdir for exists)
PathExistsDirOnly(d, p, rel) ==
    /\ p \in DOMAIN d
    /\ \/ rel = << >>
       \/ d[p].kind = "dir" /\ d[p].tree[rel] = "dir"

\* os.path.exists(os.path.join(p, rel))
PathExists(d, p, rel) ==
    /\ p \in DOMAIN d
    /\ \/ rel = << >>
       \/ d[p].kind = "dir" /\ d[p].tree[rel] # "none"

TreeAt(d, p) == IF p \in DOMAIN d /\ d[p].kind = "dir" THEN d[p].tree ELSE EmptyTree

\* os.makedirs(os.path.join(p, rel), exist_ok=True) raises when a component
\* of the path is a regular file
CanMakedirs(d, p, rel) ==
    /\ p \in DOMAIN d => d[p].kind = "dir"
    /\ \A q \in Prefixes(rel) : TreeAt(d, p)[q] \notin Contents

Makedirs(d, p, rel) ==
    LET old == TreeAt(d, p)
        new == [r \in RelPaths |->
                  IF r \in Prefixes(rel) /\ old[r] = "none" THEN "dir" ELSE old[r]]
    IN (p :> DirEntry(new)) @@ d

\* ------------------------------------------------------------- the inputs
DefaultTsFormat == "%Y%m%d_%H%M%S"
DayTsFormat == "%Y%m%d"

\* datetime.now().strftime(ts_format); the clock counts seconds of one day
Strftime(fmt, now) ==
    IF fmt = DefaultTsFormat THEN <<"ymd", "_", ToString(now)>>
    ELSE IF fmt = DayTsFormat THEN <<"ymd">>
    ELSE <<fmt>>

NameDocs == <<"docs">>
NameMedia == <<"media">>

IncDocs == [name |-> NameDocs, source |-> SrcDocs, type |-> "incremental"]
FullMedia == [source |-> SrcMedia, run |-> TRUE]
ZipDocs == [name |-> NameDocs, source |-> SrcDocsSlash, type |-> "zip"]
FullGone == [name |-> NameMedia, source |-> SrcGone, type |-> "full", run |-> FALSE]
ZipNoSource == [name |-> NameMedia, type |-> "zip"]

Descriptors == {IncDocs, FullMedia, ZipDocs, FullGone, ZipNoSource}

\* two descriptors whose name or source directory has the "_" of the backup
\* name in it
NameHome == <<"home">>
NameHomeOld == <<"home", "_", "old">>

IncHome == [name |-> NameHome, source |-> SrcOldDocs, type |-> "incremental"]
IncHomeOld == [name |-> NameHomeOld, source |-> SrcDocs, type |-> "incremental"]

\* kinds that are neither 'zip' nor 'incremental': the default spelled out,
\* the strategy's name in the documentation, and a misspelling
OtherKinds == {"normal", "full", "incremntal"}

KindMedia(kind) == [name |-> NameMedia, source |-> SrcMedia, type |-> kind]

TaskLists == UNION {[1..n -> Descriptors] : n \in 0..MaxTasks}

\* a configuration with its own backup_settings holds one task
SettingsChoices == {[timestamp_format |-> DayTsFormat]}

\* what the configuration file holds: unreadable, or a YAML document
ConfigFiles ==
    {[ok |-> FALSE, doc |-> EmptyDict], [ok |-> TRUE, doc |-> EmptyDict]}
    \cup {[ok |-> TRUE, doc |-> [tasks |-> l]] : l \in TaskLists}
    \cup {[ok |-> TRUE, doc |-> [tasks |-> <<t>>, backup_settings |-> st]] :
             t \in Descriptors, st \in SettingsChoices}
    \cup {[ok |-> TRUE, doc |-> [tasks |-> <<IncHomeOld, IncHome>>]]}
    \cup {[ok |-> TRUE, doc |-> [tasks |-> <<KindMedia(k)>>]] : k \in OtherKinds}

ArgChoices == {EmptyDict, [task_name |-> NameDocs], [task_name |-> NameMedia]}

\* ------------------------------------------------------------------ state
VARIABLES
    cfgfile,    \* the configuration file on disk
    args,       \* the parsed command line
    src,        \* the source directories: normalised path -> tree
    root,       \* the destination root: "present", "absent" or "blocked"
    dst,        \* the names under the destination root
    clock,      \* the wall clock
    run,        \* which invocation of the program this is
    mainpc,     \* where main() is
    tk,         \* the coroutines main() gathered, in order
    hist,       \* one record per finished invocation
    faults      \* how many I/O errors the environment has injected

vars == <<cfgfile, args, src, root, dst, clock, run, mainpc, tk, hist, faults>>

\* load_config: None for a missing or unparsable file; None and {} are both
\* falsy, which is all main() asks of the result
load_config(file) == IF file.ok THEN file.doc ELSE EmptyDict

Truthy(str) == str # << >>

Requested == HasKey(args, "task_name") /\ Truthy(args.task_name)

Indices(n) == [i \in 1..n |-> i]

\* variant: a requested name that matches nothing keeps every descriptor
FilterByNameOrAll(tasks) ==
    LET kept == SelectSeq(Indices(Len(tasks)),
                          LAMBDA i : HasKey(tasks[i], "name") /\ tasks[i].name = args.task_name)
    IN IF Requested /\ kept # << >> THEN kept ELSE Indices(Len(tasks))

\* main, lines 138-139: the descriptors kept by the name filter
FilterByName(tasks) ==
    IF Requested
    THEN SelectSeq(Indices(Len(tasks)),
                   LAMBDA i : HasKey(tasks[i], "name") /\ tasks[i].name = args.task_name)
    ELSE Indices(Len(tasks))

\* variant: the run flag is honoured even when a name is requested
ToRunHonoursFlag(tasks, kept) ==
    SelectSeq(kept, LAMBDA i : Get(tasks[i], "run", TRUE))

\* variant: the run flag is not looked at
ToRunIgnoresFlag(tasks, kept) == kept

\* main, lines 146-151: the descriptors whose coroutine is created
ToRun(tasks, kept) ==
    SelectSeq(kept, LAMBDA i : ~(~Requested /\ ~Get(tasks[i], "run", TRUE)))

Config == load_config(cfgfile)
Settings == Get(Config, "backup_settings", EmptyDict)
Tasks == Get(Config, "tasks", << >>)

NewTask(i) ==
    [idx |-> i, task |-> Tasks[i], pc |-> "ready", name |-> << >>,
     backup_type |-> "", dest_path |-> << >>, walk |-> << >>,
     new_files_count |-> 0, logs |-> {}, ran |-> {}, spawned |-> 0,
     returncode |-> 0, opres |-> "", started_at |-> 0, dst0 |-> EmptyDict,
     cause |-> "none"]

Init ==
    /\ cfgfile \in ConfigFiles
    /\ args \in ArgChoices
    /\ src = (SrcDocs :> DocsTree) @@ (SrcMedia :> MediaTree) @@ (SrcOldDocs :> MediaTree)
    /\ root \in {"present", "absent", "blocked"}
    /\ dst = EmptyDict
    /\ clock = 0
    /\ run = 1
    /\ mainpc = "start"
    /\ tk = << >>
    /\ hist = << >>
    /\ faults = 0

\* ------------------------------------------------------------------- main
MainNoConfig ==
    /\ mainpc = "start"
    /\ Config = EmptyDict
    /\ mainpc' = "no_config"
    /\ UNCHANGED <<cfgfile, args, src, root, dst, clock, run, tk, hist, faults>>

MainNoTasks ==
    /\ mainpc = "start"
    /\ Config # EmptyDict
    /\ Tasks = << >>
    /\ mainpc' = "no_tasks"
    /\ UNCHANGED <<cfgfile, args, src, root, dst, clock, run, tk, hist, faults>>

MainNoTaskFound ==
    /\ mainpc = "start"
    /\ Config # EmptyDict
    /\ Tasks # << >>
    /\ Requested
    /\ FilterByName(Tasks) = << >>
    /\ mainpc' = "no_task_found"
    /\ UNCHANGED <<cfgfile, args, src, root, dst, clock, run, tk, hist, faults>>

MainNothingToExecute ==
    /\ mainpc = "start"
    /\ Config # EmptyDict
    /\ Tasks # << >>
    /\ FilterByName(Tasks) # << >>
    /\ ToRun(Tasks, FilterByName(Tasks)) = << >>
    /\ mainpc' = "nothing_to_execute"
    /\ UNCHANGED <<cfgfile, args, src, root, dst, clock, run, tk, hist, faults>>

MainLaunch ==
    /\ mainpc = "start"
    /\ Config # EmptyDict
    /\ Tasks # << >>
    /\ FilterByName(Tasks) # << >>
    /\ LET sel == ToRun(Tasks, FilterByName(Tasks))
       IN /\ sel # << >>
          /\ tk' = [j \in 1..Len(sel) |-> NewTask(sel[j])]
    /\ mainpc' = "gather"
    /\ UNCHANGED <<cfgfile, args, src, root, dst, clock, run, hist, faults>>

\* --------------------------------------------------------- perform_backup
\* lines 60-65
Source(task) == task.source
TaskName(task) == Get(task, "name", Basename(Source(task)))
\* variant: a descriptor without a kind is archived
BackupTypeDefaultZip(task) == Get(task, "type", "zip")

BackupType(task) == Get(task, "type", "normal")
TsFormat == Get(Settings, "timestamp_format", DefaultTsFormat)

\* variant: the source is taken to be there without looking
SourceAssumed(source) == TRUE

\* os.path.exists(source)
SourceExists(source) == Normpath(source) \in DOMAIN src

SourceTree(task) == src[Normpath(Source(task))]

\* variant: no strategy gets a timestamp in its name
BackupNameNoStamp(task, now) ==
    TaskName(task) \o <<"_">> \o Basename(Normpath(Source(task)))

\* lines 71-77
BackupName(task, now) ==
    LET source_dir_name == Basename(Normpath(Source(task)))
    IN IF BackupType(task) = "incremental"
       THEN TaskName(task) \o <<"_">> \o source_dir_name
       ELSE TaskName(task) \o <<"_">> \o source_dir_name \o <<"_">>
                \o Strftime(TsFormat, now)

\* line 91
OutputFile(dest_path) == dest_path \o <<".7z">>

\* an exception outside the try block leaves perform_backup
Uncaught(rec, why) == [rec EXCEPT !.pc = "raised", !.cause = why]

\* variant: the try block has no handler
CaughtNowhere(rec, why) == [rec EXCEPT !.pc = "raised", !.cause = why]

\* lines 115-116: an exception inside the try block is logged, and
\* perform_backup returns
Caught(rec, why) ==
    [rec EXCEPT !.pc = "returned", !.logs = @ \cup {"failed"}, !.cause = why]

\* lines 113-114
Completed(rec) == [rec EXCEPT !.pc = "returned", !.logs = @ \cup {"completed"}]

\* ----------------------------------------------------------- sync_folders
\* variant: a file is copied whether or not the destination has it
RECURSIVE SyncAdvanceNoSkip(_, _, _)
SyncAdvanceNoSkip(items, d, p) ==
    IF items = << >> THEN [walk |-> << >>, dst |-> d, err |-> FALSE]
    ELSE LET it == Head(items)
         IN IF it.kind = "file" THEN [walk |-> items, dst |-> d, err |-> FALSE]
            ELSE IF PathExists(d, p, it.rel) THEN SyncAdvanceNoSkip(Tail(items), d, p)
            ELSE IF CanMakedirs(d, p, it.rel)
                 THEN SyncAdvanceNoSkip(Tail(items), Makedirs(d, p, it.rel), p)
                 ELSE [walk |-> items, dst |-> d, err |-> TRUE]

\* lines 35-51 from one suspension point to the next: directories are
\* mirrored and present files skipped until a file has to be copied (the
\* walk stops at it) or the walk ends.
RECURSIVE SyncAdvance(_, _, _)
SyncAdvance(items, d, p) ==
    IF items = << >> THEN [walk |-> << >>, dst |-> d, err |-> FALSE]
    ELSE LET it == Head(items)
         IN IF PathExists(d, p, it.rel) THEN SyncAdvance(Tail(items), d, p)
            ELSE IF it.kind = "file" THEN [walk |-> items, dst |-> d, err |-> FALSE]
            ELSE IF CanMakedirs(d, p, it.rel)
                 THEN SyncAdvance(Tail(items), Makedirs(d, p, it.rel), p)
                 ELSE [walk |-> items, dst |-> d, err |-> TRUE]

\* lines 53-56 and 108
SyncReturned(rec) ==
    Completed([rec EXCEPT !.walk = << >>,
                          !.logs = @ \cup {IF rec.new_files_count > 0
                                           THEN "sync_copied" ELSE "sync_none",
                                           "sync_success"}])

SyncLoop(rec, items, d) ==
    LET res == SyncAdvance(items, d, rec.dest_path)
    IN IF res.err THEN [rec |-> Caught(rec, "layout"), dst |-> res.dst]
       ELSE IF res.walk = << >> THEN [rec |-> SyncReturned(rec), dst |-> res.dst]
       ELSE [rec |-> [rec EXCEPT !.pc = "copy2", !.walk = res.walk], dst |-> res.dst]

\* lines 31-35: the destination is made, the walk starts
SyncBegin(rec, d) ==
    LET p == rec.dest_path
        d1 == IF PathExists(d, p, << >>) THEN d ELSE Makedirs(d, p, << >>)
    IN SyncLoop(rec, Walk(SourceTree(rec.task), << << >> >>), d1)

\* ------------------------------------------------------ the task's steps
Pending == {"ready", "spawn", "communicate", "copytree", "copytree_run",
            "copytree_ret", "copy2", "copy2_ret"}

\* perform_backup from its call to its first suspension point
Start(t) ==
    /\ mainpc = "gather"
    /\ t \in DOMAIN tk
    /\ tk[t].pc = "ready"
    /\ LET task == tk[t].task
           rec0 == [tk[t] EXCEPT !.started_at = clock, !.dst0 = dst]
       IN IF ~HasKey(task, "source")
          THEN /\ tk' = [tk EXCEPT ![t] = Uncaught(rec0, "no_source")]
               /\ UNCHANGED <<root, dst>>
          ELSE IF ~SourceExists(Source(task))
          THEN /\ tk' = [tk EXCEPT ![t] =
                           [rec0 EXCEPT !.pc = "returned",
                                        !.name = TaskName(task),
                                        !.logs = @ \cup {"skip_missing_source"}]]
               /\ UNCHANGED <<root, dst>>
          ELSE IF root = "blocked"
          THEN /\ tk' = [tk EXCEPT ![t] = Uncaught(rec0, "root")]
               /\ UNCHANGED <<root, dst>>
          ELSE LET rec == [rec0 EXCEPT !.name = TaskName(task),
                                       !.backup_type = BackupType(task),
                                       !.dest_path = BackupName(task, clock),
                                       !.logs = @ \cup {"starting"}]
               IN /\ root' = "present"
                  /\ IF rec.backup_type = "zip"
                     THEN /\ tk' = [tk EXCEPT ![t] =
                                      [rec EXCEPT !.pc = "spawn", !.ran = @ \cup {"zip"}]]
                          /\ dst' = dst
                     ELSE IF rec.backup_type = "incremental"
                     THEN LET r == SyncBegin([rec EXCEPT !.ran = @ \cup {"sync"}], dst)
                          IN /\ tk' = [tk EXCEPT ![t] = r.rec]
                             /\ dst' = r.dst
                     ELSE /\ tk' = [tk EXCEPT ![t] =
                                      [rec EXCEPT !.pc = "copytree",
                                                  !.ran = @ \cup {"copytree"}]]
                          /\ dst' = dst
    /\ UNCHANGED <<cfgfile, args, src, clock, run, mainpc, hist, faults>>

\* asyncio.create_subprocess_exec returns, or raises when the executable
\* cannot be started
Spawned(t) ==
    /\ mainpc = "gather"
    /\ t \in DOMAIN tk
    /\ tk[t].pc = "spawn"
    /\ \E started \in BOOLEAN :
         /\ ~started => faults < MaxFaults
         /\ faults' = IF started THEN faults ELSE faults + 1
         /\ tk' = [tk EXCEPT ![t] =
                     IF started
                     THEN [@ EXCEPT !.pc = "communicate", !.spawned = @ + 1]
                     ELSE Caught(@, "io")]
    /\ UNCHANGED <<cfgfile, args, src, root, dst, clock, run, mainpc, hist>>

ExitCodes == {0, 2}

\* variant: a nonzero exit code is raised, outside any handler
OnArchiverExitRaises(rec, code) ==
    IF code = 0
    THEN Completed([rec EXCEPT !.returncode = code, !.logs = @ \cup {"zip_success"}])
    ELSE [rec EXCEPT !.pc = "raised", !.returncode = code,
                     !.logs = @ \cup {"zip_failed"}, !.cause = "archiver"]

\* lines 102-105, and 113-114 after them
OnArchiverExit(rec, code) ==
    Completed([rec EXCEPT !.returncode = code,
                          !.logs = @ \cup {IF code = 0 THEN "zip_success"
                                           ELSE "zip_failed"}])

\* the archiver exits and process.communicate() returns
ArchiverExit(t) ==
    /\ mainpc = "gather"
    /\ t \in DOMAIN tk
    /\ tk[t].pc = "communicate"
    /\ \E code \in ExitCodes :
         LET out == OutputFile(tk[t].dest_path)
         IN /\ code = 0 => ~(out \in DOMAIN dst /\ dst[out].kind = "dir")
            /\ tk' = [tk EXCEPT ![t] = OnArchiverExit(@, code)]
            /\ dst' = IF code = 0
                      THEN (out :> ArchiveEntry(SourceTree(tk[t].task))) @@ dst
                      ELSE dst
    /\ UNCHANGED <<cfgfile, args, src, root, clock, run, mainpc, hist, faults>>

\* variant: copytree accepts a destination that is already there
DestTakenNever(d, p) == FALSE

\* shutil.copytree's os.makedirs(dst) raises FileExistsError when the name
\* is taken, by a directory or by a file
DestTaken(d, p) == p \in DOMAIN d

\* aioshutil.copytree runs shutil.copytree on a worker thread: first the
\* destination directory is made, which fails when the name is taken
CopytreeMkdir(t) ==
    /\ t \in DOMAIN tk
    /\ tk[t].pc = "copytree"
    /\ LET p == tk[t].dest_path
       IN IF DestTaken(dst, p)
          THEN /\ tk' = [tk EXCEPT ![t] = [@ EXCEPT !.pc = "copytree_ret",
                                                    !.opres = "exists"]]
               /\ dst' = dst
          ELSE /\ tk' = [tk EXCEPT ![t] = [@ EXCEPT !.pc = "copytree_run"]]
               /\ dst' = (p :> DirEntry(EmptyTree)) @@ dst
    /\ UNCHANGED <<cfgfile, args, src, root, clock, run, mainpc, hist, faults>>

\* the tree after the first k items of the walk have been copied into it
CopyItems(old, from, items, k) ==
    [r \in RelPaths |->
        IF \E i \in 1..k : items[i].rel = r THEN from[r] ELSE old[r]]

\* then the tree is copied; an I/O error stops the copy part-way
CopytreeThread(t) ==
    /\ t \in DOMAIN tk
    /\ tk[t].pc = "copytree_run"
    /\ LET p == tk[t].dest_path
           from == SourceTree(tk[t].task)
           items == Walk(from, << << >> >>)
       IN \E k \in 0..Len(items) :
            /\ k < Len(items) => faults < MaxFaults
            /\ faults' = IF k = Len(items) THEN faults ELSE faults + 1
            /\ tk' = [tk EXCEPT ![t] =
                        [@ EXCEPT !.pc = "copytree_ret",
                                  !.opres = IF k = Len(items) THEN "ok" ELSE "io"]]
            /\ dst' = [dst EXCEPT ![p] =
                         DirEntry(CopyItems(TreeAt(dst, p), from, items, k))]
    /\ UNCHANGED <<cfgfile, args, src, root, clock, run, mainpc, hist>>

\* variant: a failed copy is raised again by the handler
CopytreeReturnedRaises(rec) ==
    IF rec.opres = "ok"
    THEN Completed([rec EXCEPT !.logs = @ \cup {"copy_success"}])
    ELSE Uncaught(rec, rec.opres)

\* lines 110-114, or 115-116 when the copy raised
CopytreeReturned(rec) ==
    IF rec.opres = "ok"
    THEN Completed([rec EXCEPT !.logs = @ \cup {"copy_success"}])
    ELSE Caught(rec, rec.opres)

CopytreeResume(t) ==
    /\ mainpc = "gather"
    /\ t \in DOMAIN tk
    /\ tk[t].pc = "copytree_ret"
    /\ tk' = [tk EXCEPT ![t] = CopytreeReturned(@)]
    /\ UNCHANGED <<cfgfile, args, src, root, dst, clock, run, mainpc, hist, faults>>

\* open(dest_file, "wb") succeeds
Writable(d, p, rel) ==
    /\ p \in DOMAIN d
    /\ d[p].kind = "dir"
    /\ Len(rel) > 1 => d[p].tree[Parent(rel)] = "dir"
    /\ d[p].tree[rel] # "dir"

WriteFile(d, p, rel, content) ==
    [d EXCEPT ![p] = DirEntry([d[p].tree EXCEPT ![rel] = content])]

\* aioshutil.copy2 runs shutil.copy2 on a worker thread (line 50); an I/O
\* error leaves a truncated file
Copy2Thread(t) ==
    /\ t \in DOMAIN tk
    /\ tk[t].pc = "copy2"
    /\ LET p == tk[t].dest_path
           rel == Head(tk[t].walk).rel
           content == SourceTree(tk[t].task)[rel]
       IN IF ~Writable(dst, p, rel)
          THEN /\ tk' = [tk EXCEPT ![t] = [@ EXCEPT !.pc = "copy2_ret",
                                                    !.opres = "layout"]]
               /\ UNCHANGED <<dst, faults>>
          ELSE \E ok \in BOOLEAN :
                 /\ ~ok => faults < MaxFaults
                 /\ faults' = IF ok THEN faults ELSE faults + 1
                 /\ tk' = [tk EXCEPT ![t] =
                             [@ EXCEPT !.pc = "copy2_ret",
                                       !.opres = IF ok THEN "ok" ELSE "io"]]
                 /\ dst' = WriteFile(dst, p, rel, IF ok THEN content ELSE "trunc")
    /\ UNCHANGED <<cfgfile, args, src, root, clock, run, mainpc, hist>>

\* variant: the counter is not advanced
SyncResumedNoCount(rec, d) ==
    IF rec.opres = "ok"
    THEN SyncLoop(rec, Tail(rec.walk), d)
    ELSE [rec |-> Caught(rec, rec.opres), dst |-> d]

\* line 51, then the loop goes on to its next suspension point
SyncResumed(rec, d) ==
    IF rec.opres = "ok"
    THEN SyncLoop([rec EXCEPT !.new_files_count = @ + 1], Tail(rec.walk), d)
    ELSE [rec |-> Caught(rec, rec.opres), dst |-> d]

SyncResume(t) ==
    /\ mainpc = "gather"
    /\ t \in DOMAIN tk
    /\ tk[t].pc = "copy2_ret"
    /\ LET r == SyncResumed(tk[t], dst)
       IN /\ tk' = [tk EXCEPT ![t] = r.rec]
          /\ dst' = r.dst
    /\ UNCHANGED <<cfgfile, args, src, root, clock, run, mainpc, hist, faults>>

\* ----------------------------------------------------- gather and the end
\* line 158 returns once every coroutine has returned
MainGatherDone ==
    /\ mainpc = "gather"
    /\ \A t \in DOMAIN tk : tk[t].pc = "returned"
    /\ mainpc' = "completed"
    /\ UNCHANGED <<cfgfile, args, src, root, dst, clock, run, tk, hist, faults>>

\* asyncio.gather without return_exceptions hands the first exception to
\* main(), which leaves through it; every coroutine has had its first step
\* by then
MainGatherRaise ==
    /\ mainpc = "gather"
    /\ \E t \in DOMAIN tk : tk[t].pc = "raised"
    /\ \A t \in DOMAIN tk : tk[t].pc # "ready"
    /\ mainpc' = "crashed"
    /\ UNCHANGED <<cfgfile, args, src, root, dst, clock, run, tk, hist, faults>>

\* asyncio.run cancels what is still pending when main() has left
Cancel(t) ==
    /\ mainpc = "crashed"
    /\ t \in DOMAIN tk
    /\ tk[t].pc \in Pending
    /\ tk' = [tk EXCEPT ![t] = [@ EXCEPT !.pc = "cancelled"]]
    /\ UNCHANGED <<cfgfile, args, src, root, dst, clock, run, mainpc, hist, faults>>

\* ------------------------------------------------------- the environment
MainEnded == mainpc \in {"completed", "crashed", "no_config", "no_tasks",
                         "no_task_found", "nothing_to_execute"}

Tick ==
    /\ clock < MaxClock
    /\ mainpc = "start" \/ \E t \in DOMAIN tk : tk[t].pc = "ready"
    /\ clock' = clock + 1
    /\ UNCHANGED <<cfgfile, args, src, root, dst, run, mainpc, tk, hist, faults>>

\* the program is started again, with the same configuration and arguments
NextRun ==
    /\ MainEnded
    /\ \A t \in DOMAIN tk : tk[t].pc \notin Pending
    /\ run < MaxRuns
    /\ hist' = Append(hist, [tk |-> tk, src |-> src, dst |-> dst, mainpc |-> mainpc])
    /\ run' = run + 1
    /\ mainpc' = "start"
    /\ tk' = << >>
    /\ UNCHANGED <<cfgfile, args, src, root, dst, clock, faults>>

BetweenRuns == mainpc = "start" /\ hist # << >> /\ src = hist[Len(hist)].src

\* the source directories the configuration names
ConfiguredSources ==
    {Normpath(Tasks[i].source) : i \in {j \in DOMAIN Tasks : HasKey(Tasks[j], "source")}}
        \cap DOMAIN src

\* between two runs somebody adds a file to a source directory
AddSourceFile ==
    /\ BetweenRuns
    /\ \E s \in ConfiguredSources, rel \in RelPaths :
         /\ src[s][rel] = "none"
         /\ Len(rel) > 1 => src[s][Parent(rel)] = "dir"
         /\ src' = [src EXCEPT ![s][rel] = "c1"]
    /\ UNCHANGED <<cfgfile, args, root, dst, clock, run, mainpc, tk, hist, faults>>

\* between two runs somebody rewrites a file of a source directory
ModifySourceFile ==
    /\ BetweenRuns
    /\ \E s \in ConfiguredSources, rel \in RelPaths :
         /\ src[s][rel] \in Contents
         /\ src' = [src EXCEPT ![s][rel] = IF @ = "c1" THEN "c2" ELSE "c1"]
    /\ UNCHANGED <<cfgfile, args, root, dst, clock, run, mainpc, tk, hist, faults>>

\* between two runs somebody replaces an empty directory of a source by a
\* regular file of the same name
ReplaceSourceDir ==
    /\ BetweenRuns
    /\ \E s \in ConfiguredSources, rel \in RelPaths :
         /\ src[s][rel] = "dir"
         /\ \A r \in RelPaths : Parent(r) = rel => src[s][r] = "none"
         /\ src' = [src EXCEPT ![s][rel] = "c1"]
    /\ UNCHANGED <<cfgfile, args, root, dst, clock, run, mainpc, tk, hist, faults>>

TaskIds == 1..MaxTasks

Next ==
    \/ MainNoConfig
    \/ MainNoTasks
    \/ MainNoTaskFound
    \/ MainNothingToExecute
    \/ MainLaunch
    \/ \E t \in TaskIds : Start(t)
    \/ \E t \in TaskIds : Spawned(t)
    \/ \E t \in TaskIds : ArchiverExit(t)
    \/ \E t \in TaskIds : CopytreeMkdir(t)
    \/ \E t \in TaskIds : CopytreeThread(t)
    \/ \E t \in TaskIds : CopytreeResume(t)
    \/ \E t \in TaskIds : Copy2Thread(t)
    \/ \E t \in TaskIds : SyncResume(t)
    \/ \E t \in TaskIds : Cancel(t)
    \/ MainGatherDone
    \/ MainGatherRaise
    \/ Tick
    \/ NextRun
    \/ AddSourceFile
    \/ ModifySourceFile
    \/ ReplaceSourceDir

Spec == Init /\ [][Next]_vars

\* the event loop runs every coroutine that can run, worker threads and
\* child processes make progress: no step that stays possible is put off
\* for ever
FairSpec == Spec /\ WF_vars(Next)

\* ------------------------------------------------------------ the claims
Failed(rec) == "failed" \in rec.logs \/ "zip_failed" \in rec.logs

Succeeded(rec) == rec.logs \cap {"zip_success", "sync_success", "copy_success"} # {}

Skipped(rec) == "skip_missing_source" \in rec.logs

StrategyErrors == {"io", "exists", "layout"}

\* a task that has entered the try block never leaves perform_backup through
\* an exception; one whose strategy raised has returned, reported failed
C1_Caught ==
    \A t \in DOMAIN tk :
        tk[t].ran # {} =>
            /\ tk[t].pc # "raised"
            /\ tk[t].cause \in StrategyErrors =>
                  /\ tk[t].pc = "returned"
                  /\ "failed" \in tk[t].logs
                  /\ ~Succeeded(tk[t])
                  /\ "completed" \notin tk[t].logs

\* the step that records a task's failure changes neither main nor any
\* other task
C1_ThatTaskOnly ==
    \A t \in DOMAIN tk :
        (t \in DOMAIN tk' /\ "failed" \notin tk[t].logs /\ "failed" \in tk'[t].logs)
            => /\ mainpc' = mainpc
               /\ \A u \in DOMAIN tk \ {t} : tk'[u] = tk[u]

\* C1: for every task and strategy, an error raised while the strategy runs
\* inside perform_backup is caught inside perform_backup: the task returns
\* with a failed outcome (no success or completion report), the failure is
\* recorded for that task only, and nothing is raised out of perform_backup
\* to main.
C1_StrategyErrorsCaught == [](C1_Caught) /\ [][C1_ThatTaskOnly]_vars

\* a copy that hit an I/O error failed its own task, and main still concluded
C1_Witness ==
    /\ mainpc = "completed"
    /\ \E t \in DOMAIN tk :
          /\ tk[t].ran = {"sync"}
          /\ tk[t].cause = "io"
          /\ tk[t].pc = "returned"
          /\ "failed" \in tk[t].logs

\* C2: no failure anywhere in a task's execution reaches main or another
\* task: main never leaves through an exception, and no task ends by an
\* exception out of perform_backup or by being cancelled.
C2_FailuresContained ==
    /\ mainpc # "crashed"
    /\ \A t \in DOMAIN tk : tk[t].pc \notin {"raised", "cancelled"}

\* C3: main is past the gather only when every launched task has finished,
\* whatever its outcome, and no task is cut short by a sibling's failure.
C3_WaitsForAll ==
    /\ mainpc \in {"completed", "crashed"} =>
          \A t \in DOMAIN tk : tk[t].pc \notin Pending
    /\ \A t \in DOMAIN tk : tk[t].pc # "cancelled"

\* the first step of a task whose source path does not exist returns at
\* once and changes nothing in the filesystem
C4_SkipStep ==
    \A t \in DOMAIN tk :
        ( /\ tk[t].pc = "ready"
          /\ t \in DOMAIN tk'
          /\ tk'[t].pc # "ready"
          /\ HasKey(tk[t].task, "source")
          /\ Normpath(tk[t].task.source) \notin DOMAIN src )
        => /\ tk'[t].pc = "returned"
           /\ tk'[t].logs = {"skip_missing_source"}
           /\ tk'[t].ran = {}
           /\ root' = root
           /\ dst' = dst
           /\ src' = src

\* a skipped task has only reported the skip: no strategy, no archiver, no
\* destination path
C4_SkipFinal ==
    \A t \in DOMAIN tk :
        Skipped(tk[t]) =>
            /\ tk[t].pc = "returned"
            /\ tk[t].logs = {"skip_missing_source"}
            /\ tk[t].ran = {}
            /\ tk[t].spawned = 0
            /\ tk[t].dest_path = << >>

\* C4: a task whose source path does not exist when perform_backup runs
\* ends skipped-missing-source and changes nothing in the filesystem: the
\* destination root is neither created nor modified, no strategy starts.
C4_MissingSourceTouchesNothing == [](C4_SkipFinal) /\ [][C4_SkipStep]_vars

\* a task was skipped while the destination root had never been created
C4_Witness ==
    /\ root = "absent"
    /\ \E t \in DOMAIN tk : Skipped(tk[t]) /\ tk[t].pc = "returned"

\* the record of the run before this one
Prev == hist[Len(hist)]

\* the tasks of this run that also ran, from the same descriptor, last run
Again == IF hist = << >> THEN {}
         ELSE {t \in DOMAIN tk \cap DOMAIN Prev.tk : tk[t].idx = Prev.tk[t].idx}

SyncDone(rec) == rec.ran = {"sync"} /\ rec.pc = "returned" /\ "sync_success" \in rec.logs

\* the source files whose relative path was absent at the destination when
\* the task started
MissingAtStart(rec, sources) ==
    {f \in FilesOf(sources[Normpath(rec.task.source)]) :
        ~PathExists(rec.dst0, rec.dest_path, f)}

\* no other task of the same run computed the same destination path
SoleWriter(tasks, t) ==
    \A u \in DOMAIN tasks \ {t} : tasks[u].dest_path # tasks[t].dest_path

\* C5: an incremental task run to completion twice over an unchanged source,
\* no other task writing its destination, copies on the first run the files
\* that were missing (at least one when any was missing), copies none on the
\* second, and the second run leaves the destination tree as the first left
\* it.
C5_SecondSyncCopiesNothing ==
    \A t \in Again :
        ( /\ SyncDone(Prev.tk[t])
          /\ SyncDone(tk[t])
          /\ src = Prev.src
          /\ SoleWriter(Prev.tk, t)
          /\ SoleWriter(tk, t) )
        => /\ Prev.tk[t].new_files_count =
                 Cardinality(MissingAtStart(Prev.tk[t], Prev.src))
           /\ tk[t].new_files_count = 0
           /\ "sync_none" \in tk[t].logs
           /\ dst[tk[t].dest_path] = Prev.dst[tk[t].dest_path]

\* the first run copied files, the second ran to its end over the same source
C5_Witness ==
    \E t \in Again :
        /\ SyncDone(Prev.tk[t])
        /\ SyncDone(tk[t])
        /\ src = Prev.src
        /\ SoleWriter(Prev.tk, t)
        /\ SoleWriter(tk, t)
        /\ Prev.tk[t].new_files_count > 1
        /\ mainpc = "completed"

\* C6 as stated: every incremental run that returns has copied as many files
\* as the source had files missing at the destination when the run started.
C6_CountIsMissingAtStart ==
    \A t \in DOMAIN tk :
        SyncDone(tk[t]) =>
            tk[t].new_files_count = Cardinality(MissingAtStart(tk[t], src))

\* the files of tree b that tree a does not have
AddedFiles(a, b) == {r \in RelPaths : a[r] = "none" /\ b[r] \in Contents}

\* C6 amended: the count equals the number of files missing at the start for
\* every incremental run that returns and whose destination no other task of
\* the run writes; and when such a run follows a completed one and exactly
\* one file was added to the source in between, it copies exactly one file.
C6_CountIsMissingWhenSoleWriter ==
    /\ \A t \in DOMAIN tk :
          (SyncDone(tk[t]) /\ SoleWriter(tk, t)) =>
              tk[t].new_files_count = Cardinality(MissingAtStart(tk[t], src))
    /\ \A t \in Again :
          ( /\ SyncDone(Prev.tk[t])
            /\ SyncDone(tk[t])
            /\ SoleWriter(Prev.tk, t)
            /\ SoleWriter(tk, t)
            /\ LET s == Normpath(tk[t].task.source)
               IN /\ Cardinality(AddedFiles(Prev.src[s], src[s])) = 1
                  /\ \A r \in RelPaths :
                        Prev.src[s][r] # "none" => src[s][r] = Prev.src[s][r] )
          => tk[t].new_files_count = 1

\* one file was added beside two unchanged ones, and the next run returned
C6_Witness ==
    \E t \in Again :
        /\ SyncDone(Prev.tk[t])
        /\ SyncDone(tk[t])
        /\ SoleWriter(tk, t)
        /\ Cardinality(AddedFiles(Prev.src[Normpath(tk[t].task.source)],
                                  src[Normpath(tk[t].task.source)])) = 1
        /\ Cardinality(FilesOf(Prev.src[Normpath(tk[t].task.source)])) > 1
        /\ tk[t].new_files_count = 1

\* the descriptors main() must execute, read off the configuration
Expected ==
    IF Requested
    THEN {i \in DOMAIN Tasks : HasKey(Tasks[i], "name") /\ Tasks[i].name = args.task_name}
    ELSE {i \in DOMAIN Tasks : ~HasKey(Tasks[i], "run") \/ Tasks[i].run}

Executed == {tk[j].idx : j \in DOMAIN tk}

\* C7: once main() has made its selection, the executed descriptors are
\* exactly those with the requested name (whatever their run flag) or, when
\* no name is requested, exactly those whose run flag is true or absent; each
\* is executed once, and nothing is executed when main() stops before.
C7_Selection ==
    /\ mainpc \in {"gather", "completed", "crashed"} =>
          /\ Executed = Expected
          /\ Cardinality(Executed) = Len(tk)
          /\ \A j \in DOMAIN tk : tk[j].task = Tasks[tk[j].idx]
    /\ mainpc \in {"no_task_found", "nothing_to_execute"} =>
          /\ Expected = {}
          /\ tk = << >>

\* a descriptor with run = false ran because its name was requested, beside
\* a configuration entry of another name that did not
C7_Witness ==
    /\ mainpc = "completed"
    /\ Requested
    /\ \E j \in DOMAIN tk : HasKey(tk[j].task, "run") /\ ~tk[j].task.run
    /\ Len(tk) < Len(Tasks)

\* C8: an archive task whose archiver exited nonzero is reported failed, is
\* reported neither successful nor completed, and ran the archiver once.
C8_NonzeroExitIsFailed ==
    \A t \in DOMAIN tk :
        (tk[t].spawned > 0 /\ tk[t].pc = "returned" /\ tk[t].returncode # 0) =>
            /\ "zip_failed" \in tk[t].logs
            /\ "zip_success" \notin tk[t].logs
            /\ "completed" \notin tk[t].logs
            /\ tk[t].spawned = 1

ArchiverFailed(rec) == rec.spawned > 0 /\ rec.returncode # 0 /\ "zip_failed" \in rec.logs

FullCopy(rec) == rec.ran = {"copytree"}

\* C9: beside an archive task whose archiver exited nonzero, a full-copy
\* task on another source and destination that meets no error of its own
\* (every descriptor of the run naming a source, the destination root being
\* creatable) is never cancelled, and once it has finished it has reported
\* success and its destination holds the whole source tree.
C9_FullCopyBesideFailedArchive ==
    \A z \in DOMAIN tk, f \in DOMAIN tk :
        ( /\ ArchiverFailed(tk[z])
          /\ FullCopy(tk[f])
          /\ tk[f].task.source # tk[z].task.source
          /\ tk[f].opres \notin StrategyErrors
          /\ \A u \in DOMAIN tk : tk[u].cause \notin {"no_source", "root"} )
        => /\ tk[f].pc # "cancelled"
           /\ mainpc # "crashed"
           /\ tk[f].pc = "returned" =>
                 /\ "copy_success" \in tk[f].logs
                 /\ "completed" \in tk[f].logs
                 /\ ~Failed(tk[f])
                 /\ tk[f].dest_path \in DOMAIN dst
                 /\ dst[tk[f].dest_path] = DirEntry(SourceTree(tk[f].task))
           /\ mainpc = "completed" => tk[f].pc = "returned"

\* the archiver failed while the sibling's copy was still under way, and
\* the copy went on to succeed
C9_Witness ==
    \E z \in DOMAIN tk, f \in DOMAIN tk :
        /\ ArchiverFailed(tk[z])
        /\ FullCopy(tk[f])
        /\ tk[f].task.source # tk[z].task.source
        /\ tk[f].pc = "returned"
        /\ "copy_success" \in tk[f].logs
        /\ tk[f].started_at <= tk[z].started_at
        /\ mainpc = "completed"

Named(rec) == "starting" \in rec.logs

Stamp(rec) == Strftime(TsFormat, rec.started_at)

\* C10: over two runs of the same task, an incremental task computes the
\* same path name_base both times; a full or archive task computes
\* name_base_timestamp, so that runs at different timestamps compute
\* different paths; and when both full copies succeeded at different
\* timestamps both artifacts are there, the earlier one as the earlier run
\* left it.
C10_NamingAcrossRuns ==
    \A t \in Again :
        (Named(tk[t]) /\ Named(Prev.tk[t])) =>
            LET task == tk[t].task
                base == Basename(Normpath(task.source))
                name == IF HasKey(task, "name") THEN task.name ELSE Basename(task.source)
                p1 == Prev.tk[t].dest_path
                p2 == tk[t].dest_path
            IN IF HasKey(task, "type") /\ task.type = "incremental"
               THEN p2 = name \o <<"_">> \o base /\ p1 = p2
               ELSE /\ p2 = name \o <<"_">> \o base \o <<"_">> \o Stamp(tk[t])
                    /\ p1 = name \o <<"_">> \o base \o <<"_">> \o Stamp(Prev.tk[t])
                    /\ Stamp(tk[t]) # Stamp(Prev.tk[t]) =>
                          /\ p1 # p2
                          /\ (FullCopy(tk[t]) /\ p1 \in DOMAIN Prev.dst) =>
                                (p1 \in DOMAIN dst /\ dst[p1] = Prev.dst[p1])
                          /\ ( /\ FullCopy(tk[t])
                               /\ "copy_success" \in Prev.tk[t].logs
                               /\ "copy_success" \in tk[t].logs ) =>
                                {p1, p2} \subseteq DOMAIN dst

\* two full copies of one task succeeded at different timestamps, beside an
\* incremental task that synced at both
C10_Witness ==
    /\ \E t \in Again :
          /\ FullCopy(tk[t])
          /\ "copy_success" \in Prev.tk[t].logs
          /\ "copy_success" \in tk[t].logs
          /\ Stamp(tk[t]) # Stamp(Prev.tk[t])
          /\ tk[t].dest_path # Prev.tk[t].dest_path
    /\ \E t \in Again :
          /\ SyncDone(tk[t])
          /\ SyncDone(Prev.tk[t])
          /\ tk[t].started_at # Prev.tk[t].started_at

\* the configuration file cannot be loaded, or a name is requested that no
\* descriptor of the configuration carries
ConfigUnloadable == ~cfgfile.ok

NameUnmatched ==
    /\ cfgfile.ok
    /\ HasKey(args, "task_name")
    /\ args.task_name # << >>
    /\ \A i \in DOMAIN Get(cfgfile.doc, "tasks", << >>) :
          ~(HasKey(cfgfile.doc.tasks[i], "name")
            /\ cfgfile.doc.tasks[i].name = args.task_name)

C11_NothingStarted ==
    (ConfigUnloadable \/ NameUnmatched) =>
        /\ tk = << >>
        /\ dst = EmptyDict
        /\ mainpc \in {"start", "no_config", "no_tasks", "no_task_found"}
        /\ \A h \in DOMAIN hist : hist[h].tk = << >> /\ hist[h].dst = EmptyDict

C11_NothingTouched ==
    (ConfigUnloadable \/ NameUnmatched) => (root' = root /\ dst' = dst /\ tk' = tk)

\* C11: when the configuration cannot be loaded, or a task name is requested
\* that no descriptor carries, the run aborts before any task starts: no
\* coroutine of perform_backup is ever created, and neither the destination
\* root nor anything under it changes.
C11_AbortBeforeAnyTask == [](C11_NothingStarted) /\ [][C11_NothingTouched]_vars

\* a run stopped on a requested name that none of its descriptors carries,
\* the destination root never having been created
C11_Witness ==
    /\ NameUnmatched
    /\ mainpc = "no_task_found"
    /\ run = MaxRuns
    /\ root = "absent"
    /\ \E i \in DOMAIN Tasks :
          /\ HasKey(Tasks[i], "name")
          /\ HasKey(Tasks[i], "source")
          /\ SourceExists(Tasks[i].source)

\* the full copy of this task made its destination directory and wrote, or
\* is about to write, into it
GotIn(rec) == FullCopy(rec) /\ (rec.pc = "copytree_run" \/ rec.opres \in {"ok", "io"})

\* the full copy of this task found its destination path taken
FoundTaken(rec) == FullCopy(rec) /\ rec.opres = "exists"

C12_State ==
    /\ \A t \in DOMAIN tk :
          /\ (FoundTaken(tk[t]) /\ tk[t].pc = "returned") =>
                /\ "failed" \in tk[t].logs
                /\ "copy_success" \notin tk[t].logs
                /\ "completed" \notin tk[t].logs
          /\ (FullCopy(tk[t]) /\ tk[t].dest_path \in DOMAIN tk[t].dst0) =>
                /\ ~GotIn(tk[t])
                /\ tk[t].dest_path \in DOMAIN dst
                /\ tk[t].pc = "returned" => FoundTaken(tk[t])
          /\ (FullCopy(tk[t]) /\ hist # << >> /\ tk[t].dest_path \in DOMAIN Prev.dst) =>
                /\ tk[t].dest_path \in DOMAIN dst
                /\ dst[tk[t].dest_path] = Prev.dst[tk[t].dest_path]
    /\ \A t \in DOMAIN tk, u \in DOMAIN tk :
          (t # u /\ tk[t].dest_path = tk[u].dest_path /\ GotIn(tk[t])) => ~GotIn(tk[u])

\* the step in which a full copy meets a taken destination path writes
\* nothing, and no later step of that task writes either
C12_Step ==
    \A t \in DOMAIN tk :
        /\ ( /\ tk[t].pc = "copytree"
             /\ t \in DOMAIN tk'
             /\ tk'[t].pc \notin {"copytree", "cancelled"}
             /\ tk[t].dest_path \in DOMAIN dst )
           => /\ dst' = dst
              /\ FoundTaken(tk'[t])
              /\ tk'[t].pc = "copytree_ret"
        /\ ( /\ FoundTaken(tk[t])
             /\ t \in DOMAIN tk'
             /\ tk'[t] # tk[t] )
           => /\ dst' = dst
              /\ tk'[t].pc \in {"returned", "cancelled"}

\* C12: a full copy whose destination path is already there, from an
\* earlier run or from a concurrent task of the same name, source and
\* timestamp, fails, is reported neither successful nor completed, and
\* writes nothing: what was at the path stays as it was, and of the tasks
\* that compute one path at most one ever writes under it.
C12_FullCopyNeverOverwrites == [](C12_State) /\ [][C12_Step]_vars

\* two tasks of the same descriptor started at the same time: one copied,
\* the other found the path taken and failed
C12_Witness ==
    /\ mainpc = "completed"
    /\ \E t \in DOMAIN tk, u \in DOMAIN tk :
          /\ t # u
          /\ tk[t].task = tk[u].task
          /\ tk[t].started_at = tk[u].started_at
          /\ tk[t].dest_path = tk[u].dest_path
          /\ "copy_success" \in tk[t].logs
          /\ FoundTaken(tk[u])
          /\ "failed" \in tk[u].logs
          /\ dst[tk[u].dest_path] = DirEntry(SourceTree(tk[t].task))

\* every file the destination of task t holds is still there, with the same
\* content, after the step
KeepsFiles(t) ==
    LET p == tk[t].dest_path
    IN (p \in DOMAIN dst /\ dst[p].kind = "dir") =>
          /\ p \in DOMAIN dst'
          /\ dst'[p].kind = "dir"
          /\ \A rel \in FilesOf(dst[p].tree) : dst'[p].tree[rel] = dst[p].tree[rel]

\* C13 as stated: no step taken while an incremental task runs overwrites or
\* deletes a file its destination already holds.
C13_NeverOverwrites ==
    [][\A t \in DOMAIN tk : tk[t].ran = {"sync"} => KeepsFiles(t)]_vars

C13_Step ==
    \A t \in DOMAIN tk : (tk[t].ran = {"sync"} /\ SoleWriter(tk, t)) => KeepsFiles(t)

\* a file the destination held when the run started is a file of the same
\* content when the run has returned, whatever the source holds there now,
\* and it was not counted as copied
C13_State ==
    \A t \in DOMAIN tk :
        (tk[t].ran = {"sync"} /\ SoleWriter(tk, t)) =>
            LET p == tk[t].dest_path
                held == FilesOf(TreeAt(tk[t].dst0, p))
            IN /\ \A rel \in held : TreeAt(dst, p)[rel] = TreeAt(tk[t].dst0, p)[rel]
               /\ tk[t].pc = "returned" =>
                     tk[t].new_files_count <=
                         Cardinality(FilesOf(SourceTree(tk[t].task)) \ held)

\* C13 amended: while no other task of the run computes the same destination
\* path, every file the destination holds when sync_folders visits it is
\* skipped and keeps its content, also when the source file at that relative
\* path has another content, and no step of the run overwrites or deletes a
\* file of the destination.
C13_PresenceGatesCopy == [](C13_State) /\ [][C13_Step]_vars

\* the second run returned over a destination file whose source had been
\* rewritten in between: the destination still holds the old content
C13_Witness ==
    \E t \in Again :
        /\ SyncDone(Prev.tk[t])
        /\ SyncDone(tk[t])
        /\ SoleWriter(tk, t)
        /\ \E rel \in FilesOf(SourceTree(tk[t].task)) :
              /\ IsFile(Prev.dst[tk[t].dest_path].tree, rel)
              /\ SourceTree(tk[t].task)[rel] # Prev.src[Normpath(tk[t].task.source)][rel]
              /\ dst[tk[t].dest_path].tree[rel] = Prev.dst[tk[t].dest_path].tree[rel]
              /\ dst[tk[t].dest_path].tree[rel] # SourceTree(tk[t].task)[rel]
        /\ tk[t].new_files_count = 0

\* the destination tree has, at every relative path where the source tree
\* has a directory, a directory, and where it has a file, a file
Mirrors(to, from) ==
    \A rel \in RelPaths :
        /\ from[rel] = "dir" => to[rel] = "dir"
        /\ from[rel] \in Contents => to[rel] \in Contents

\* no entry of the destination tree is of another kind than the entry of the
\* source tree at the same relative path
SameKinds(to, from) ==
    \A rel \in RelPaths :
        (to[rel] # "none" /\ from[rel] # "none") => (to[rel] = "dir" <=> from[rel] = "dir")

DefaultNamed ==
    {i \in DOMAIN Tasks :
        /\ ~HasKey(Tasks[i], "name")
        /\ HasKey(Tasks[i], "source")
        /\ HasKey(args, "task_name")
        /\ Basename(Tasks[i].source) = args.task_name}

\* C15: a descriptor without a name goes by the base name of its source, and
\* selection matches that name: once main has made its selection for a
\* requested name, every descriptor whose default name is the requested one
\* is executed, under that name, and main has not stopped for want of a
\* match.
C15_DefaultNameSelected ==
    (Requested /\ mainpc # "start") =>
        \A i \in DefaultNamed :
            /\ mainpc # "no_task_found"
            /\ i \in Executed
            /\ \A j \in DOMAIN tk :
                  (tk[j].idx = i /\ Named(tk[j])) => tk[j].name = args.task_name

\* the task has ended with exactly one of the three outcomes
OneOutcome(rec) ==
    /\ rec.pc = "returned"
    /\ Cardinality({o \in {"success", "skipped", "failed"} :
                       \/ o = "success" /\ Succeeded(rec)
                       \/ o = "skipped" /\ Skipped(rec)
                       \/ o = "failed" /\ Failed(rec)}) = 1

\* C16: once main has launched its tasks, every one of them eventually ends
\* with exactly one outcome (success, skipped-missing-source or failed) and
\* main eventually concludes.
C16_AllFinishAndMainConcludes ==
    (mainpc = "gather") ~>
        (mainpc = "completed" /\ \A t \in DOMAIN tk : OneOutcome(tk[t]))

\* the strategy a descriptor asks for: archive, incremental, or full copy
\* for every other kind
Strategy(task) ==
    IF HasKey(task, "type") /\ task.type \in {"zip", "incremental"} THEN task.type
    ELSE "full"

\* the path a task writes: its destination path, with the archive suffix
\* for an archive
Written(rec) == IF rec.ran = {"zip"} THEN rec.dest_path \o <<".7z">> ELSE rec.dest_path

Triple(rec) ==
    <<rec.name, Basename(Normpath(rec.task.source)), Strategy(rec.task)>>

\* C17: two tasks of a run whose (logical name, source base name, strategy)
\* differ compute different destination paths.
C17_DistinctTriplesDistinctPaths ==
    \A t \in DOMAIN tk, u \in DOMAIN tk :
        (t # u /\ Named(tk[t]) /\ Named(tk[u]) /\ Triple(tk[t]) # Triple(tk[u]))
            => Written(tk[t]) # Written(tk[u])

\* what was under the destination root when this run started
RunStart == IF hist = << >> THEN EmptyDict ELSE Prev.dst

\* the backup name of a descriptor before any timestamp is put to it
Plain(task) ==
    (IF HasKey(task, "name") THEN task.name ELSE Basename(task.source))
        \o <<"_">> \o Basename(Normpath(task.source))

\* every task of the run names a source; no two name the same source tree,
\* are due to write the same path, or have computed the same path
Disjoint ==
    \A t \in DOMAIN tk :
        /\ HasKey(tk[t].task, "source")
        /\ \A u \in DOMAIN tk \ {t} :
              /\ HasKey(tk[u].task, "source")
              /\ Normpath(tk[t].task.source) # Normpath(tk[u].task.source)
              /\ <<Plain(tk[t].task), Strategy(tk[t].task)>>
                    # <<Plain(tk[u].task), Strategy(tk[u].task)>>
              /\ (Named(tk[t]) /\ Named(tk[u])) => Written(tk[t]) # Written(tk[u])

\* the environment has cut no operation of this run short
NoIo == \A t \in DOMAIN tk : tk[t].cause # "io" /\ tk[t].opres # "io"

\* a tree after everything absent from it has been taken from another
Merge(old, from) == [r \in RelPaths |-> IF old[r] # "none" THEN old[r] ELSE from[r]]

\* what the task leaves when it runs alone from the start of the run
Alone(rec) ==
    LET task == rec.task
        s == Normpath(task.source)
        p == Written(rec)
        d0 == RunStart
    IN IF s \notin DOMAIN src
       THEN /\ rec.pc = "returned"
            /\ rec.logs = {"skip_missing_source"}
            /\ rec.new_files_count = 0
       ELSE IF root = "blocked"
       THEN rec.pc = "raised" /\ rec.new_files_count = 0
       ELSE /\ OneOutcome(rec)
            /\ IF Strategy(task) = "zip"
               THEN IF rec.returncode = 0
                    THEN /\ "zip_success" \in rec.logs
                         /\ p \in DOMAIN dst
                         /\ dst[p] = ArchiveEntry(src[s])
                    ELSE /\ "zip_failed" \in rec.logs
                         /\ p \in DOMAIN dst <=> p \in DOMAIN d0
                         /\ p \in DOMAIN d0 => dst[p] = d0[p]
               ELSE IF Strategy(task) = "incremental"
               THEN /\ "sync_success" \in rec.logs
                    /\ p \in DOMAIN dst
                    /\ dst[p] = DirEntry(Merge(TreeAt(d0, p), src[s]))
                    /\ rec.new_files_count =
                          Cardinality({f \in FilesOf(src[s]) : TreeAt(d0, p)[f] = "none"})
               ELSE /\ rec.new_files_count = 0
                    /\ p \in DOMAIN dst
                    /\ IF p \in DOMAIN d0
                       THEN "failed" \in rec.logs /\ dst[p] = d0[p]
                       ELSE "copy_success" \in rec.logs /\ dst[p] = DirEntry(src[s])

C18_State ==
    (Disjoint /\ NoIo) =>
        /\ \A t \in DOMAIN tk :
              /\ tk[t].pc # "cancelled"
              /\ tk[t].pc \notin Pending => Alone(tk[t])
        /\ mainpc \in {"completed", "crashed"} =>
              /\ \A t \in DOMAIN tk : tk[t].pc \notin Pending
              /\ \A p \in DOMAIN RunStart :
                    /\ p \in DOMAIN dst
                    /\ (\A t \in DOMAIN tk : Written(tk[t]) # p) => dst[p] = RunStart[p]
              /\ \A p \in DOMAIN dst \ DOMAIN RunStart :
                    \E t \in DOMAIN tk : Written(tk[t]) = p

\* a step of a running program changes the record of one task at most
C18_Step ==
    (mainpc = "gather" /\ mainpc' = "gather") =>
        \A t \in DOMAIN tk, u \in DOMAIN tk :
            (t # u /\ tk'[t] # tk[t]) => tk'[u] = tk[u]

\* C18: for the tasks of a run that name pairwise different source trees and
\* compute pairwise different paths, whatever the interleaving of their
\* steps, each task ends as it would have run alone from the start of the
\* run (same outcome, same count of copied files, same content at its path),
\* the destination root holds in the end what the run found there plus what
\* each task left at its own path, and no step changes the counter, name or
\* result of two tasks.
C18_InterleavingIndependent == [](C18_State) /\ [][C18_Step]_vars

\* a sync that copied several files and a full copy of another source have
\* both finished in one run, on top of what an earlier run had left
C18_Witness ==
    /\ mainpc = "completed"
    /\ hist # << >>
    /\ Disjoint
    /\ NoIo
    /\ \E t \in DOMAIN tk, u \in DOMAIN tk :
          /\ SyncDone(tk[t])
          /\ tk[t].new_files_count > 0
          /\ TreeAt(RunStart, tk[t].dest_path) # EmptyTree
          /\ "copy_success" \in tk[u].logs
          /\ tk[t].started_at # tk[u].started_at

\* no name is requested, and the configuration holds descriptors, every one
\* of them with run = false
AllDisabled ==
    /\ cfgfile.ok
    /\ ~(HasKey(args, "task_name") /\ args.task_name # << >>)
    /\ Get(cfgfile.doc, "tasks", << >>) # << >>
    /\ \A i \in DOMAIN cfgfile.doc.tasks :
          HasKey(cfgfile.doc.tasks[i], "run") /\ ~cfgfile.doc.tasks[i].run

C19_State ==
    /\ AllDisabled =>
          /\ tk = << >>
          /\ dst = EmptyDict
          /\ mainpc \in {"start", "nothing_to_execute"}
          /\ \A h \in DOMAIN hist :
                hist[h].tk = << >> /\ hist[h].mainpc = "nothing_to_execute"
    /\ NameUnmatched => mainpc # "nothing_to_execute"
    /\ mainpc = "nothing_to_execute" => ~Requested

C19_Step == AllDisabled => (root' = root /\ dst' = dst /\ tk' = tk)

\* C19: with no name requested and run = false on every descriptor, main
\* launches no task, reports that there is nothing to execute and returns,
\* the destination root and everything under it staying as they were; the
\* report is another one than that of a requested name that matches nothing.
C19_NothingToExecute == [](C19_State) /\ [][C19_Step]_vars

\* two disabled descriptors, no name requested: the second run too has ended
\* with nothing to execute, the destination root never created
C19_Witness ==
    /\ AllDisabled
    /\ Len(Tasks) = MaxTasks
    /\ mainpc = "nothing_to_execute"
    /\ run = MaxRuns
    /\ root = "absent"

\* where a task can be while a strategy runs, and what that strategy reports
StrategyPcs(strategy) ==
    IF strategy = "zip" THEN {"spawn", "communicate"}
    ELSE IF strategy = "incremental" THEN {"copy2", "copy2_ret"}
    ELSE {"copytree", "copytree_run", "copytree_ret"}

StrategyLogs(strategy) ==
    IF strategy = "zip" THEN {"zip_success", "zip_failed"}
    ELSE IF strategy = "incremental" THEN {"sync_success", "sync_copied", "sync_none"}
    ELSE {"copy_success"}

AllStrategyLogs ==
    {"zip_success", "zip_failed", "sync_success", "sync_copied", "sync_none", "copy_success"}

\* the task has run the one strategy its kind asks for, and no other
RunsOnly(rec) ==
    LET task == rec.task
        kind == IF HasKey(task, "type") THEN task.type ELSE "absent"
        strategy == IF kind \in {"zip", "incremental"} THEN kind ELSE "full"
        name == IF HasKey(task, "name") THEN task.name ELSE Basename(task.source)
        plain == name \o <<"_">> \o Basename(Normpath(task.source))
    IN /\ Cardinality(rec.ran) = 1
       /\ rec.ran = {IF strategy = "zip" THEN "zip"
                     ELSE IF strategy = "incremental" THEN "sync" ELSE "copytree"}
       /\ rec.pc \in StrategyPcs(strategy) \cup {"returned", "cancelled"}
       /\ rec.logs \cap AllStrategyLogs \subseteq StrategyLogs(strategy)
       /\ strategy # "zip" => rec.spawned = 0
       /\ strategy # "incremental" => rec.new_files_count = 0
       /\ rec.dest_path = IF strategy = "incremental" THEN plain
                          ELSE plain \o <<"_">> \o Strftime(TsFormat, rec.started_at)

\* the task has left its first step, and its source was there
Dispatched(rec) ==
    /\ rec.pc # "ready"
    /\ HasKey(rec.task, "source")
    /\ Normpath(rec.task.source) \in DOMAIN src

====
